---- MODULE Spec2Model ----
(***************************************************************************)
(* Model of the Redux Toolkit store of the tutorial application: the       *)
(* counter slice (src/counter/counter.ts), the users slice and the         *)
(* fetchUsers async thunk (src/users/users.ts), combined by configureStore *)
(* into one state tree.  Every dispatch runs the root reducer on the whole *)
(* tree; the thunk is a small process per invocation that suspends at the  *)
(* two awaits of its payload creator.                                      *)
(***************************************************************************)
EXTENDS Integers, Sequences, FiniteSets, TLC

\* ---- bounds ------------------------------------------------------------
MaxOps == 3        \* UI intents (counter or unknown) in SpecCounter
MaxFetch == 2      \* invocations of fetchUsers in SpecUsers
MaxMixedOps == 2   \* UI intents in Spec, where they interleave with a fetch
MaxMixedFetch == 1 \* invocations of fetchUsers in Spec
MaxUiFetch == 3    \* clicks on Refresh in SpecUi
MaxAmount == 2     \* incrementByAmount payloads are -MaxAmount, 0 and MaxAmount
MaxUsers == 2      \* a response body holds at most MaxUsers users

Amounts == {-MaxAmount, 0, MaxAmount}
MaxOf(a, b) == IF a > b THEN a ELSE b
RequestIds == 1..MaxOf(MaxOf(MaxFetch, MaxMixedFetch), MaxUiFetch)

\* A User is represented by its id; a response body is the list 1..n.
UserLists == { [k \in 1..n |-> k] : n \in 0..MaxUsers }

\* ---- values of the source ----------------------------------------------
Null == "null"                    \* users.ts:24  error: null
Undefined == "undefined"          \* payload of an intent that carries none
ServerError == "Server Error!"    \* users.ts:12
TransportErrors == {"Failed to fetch"}           \* message of the TypeError fetch() throws
ParseErrors == {"Unexpected end of JSON input"}  \* message of the SyntaxError json() throws
Messages == {ServerError} \cup TransportErrors \cup ParseErrors

\* intent kinds (action.type)
INCREMENT == "counter/increment"
DECREMENT == "counter/decrement"
RESET == "counter/reset"
INCREMENT_BY_AMOUNT == "counter/incrementByAmount"
PENDING == "users/fetchUsers/pending"
FULFILLED == "users/fetchUsers/fulfilled"
REJECTED == "users/fetchUsers/rejected"
UNKNOWN == "app/unknown"

Action(type, payload, requestId) ==
    [type |-> type, payload |-> payload, requestId |-> requestId]

\* counter.actions: the action creators of the counter slice
increment == Action(INCREMENT, Undefined, 0)
decrement == Action(DECREMENT, Undefined, 0)
reset == Action(RESET, Undefined, 0)
incrementByAmount(a) == Action(INCREMENT_BY_AMOUNT, a, 0)
unknownAction == Action(UNKNOWN, Undefined, 0)

VARIABLES
    state,      \* the store's state tree: [counter |-> ..., users |-> ...]
    tasks,      \* per fetchUsers invocation: position in the payload creator
    started,    \* number of fetchUsers invocations so far (request ids 1..started)
    log,        \* every intent the store has processed, in dispatch order
    plain       \* the counter state of the plain-Redux store, fed the same intents

vars == <<state, tasks, started, log, plain>>

\* ---- counter slice (counter.ts) ----------------------------------------
counterInitialState == [value |-> 0]

\* incrementByAmount assigns the amount instead of adding it.
counterSlice_assign(s, action) ==
    CASE action.type = INCREMENT -> [s EXCEPT !.value = s.value + 1]
      [] action.type = DECREMENT -> [s EXCEPT !.value = s.value - 1]
      [] action.type = RESET -> [s EXCEPT !.value = 0]
      [] action.type = INCREMENT_BY_AMOUNT -> [s EXCEPT !.value = action.payload]
      [] OTHER -> s

\* the counter slice also reacts to a lifecycle intent of the users slice.
counterSlice_resetOnFulfilled(s, action) ==
    CASE action.type = INCREMENT -> [s EXCEPT !.value = s.value + 1]
      [] action.type = DECREMENT -> [s EXCEPT !.value = s.value - 1]
      [] action.type = RESET -> [s EXCEPT !.value = 0]
      [] action.type = INCREMENT_BY_AMOUNT -> [s EXCEPT !.value = s.value + action.payload]
      [] action.type = FULFILLED -> [s EXCEPT !.value = 0]
      [] OTHER -> s

counterSlice(s, action) ==
    CASE action.type = INCREMENT -> [s EXCEPT !.value = s.value + 1]
      [] action.type = DECREMENT -> [s EXCEPT !.value = s.value - 1]
      [] action.type = RESET -> [s EXCEPT !.value = 0]
      [] action.type = INCREMENT_BY_AMOUNT -> [s EXCEPT !.value = s.value + action.payload]
      [] OTHER -> s

\* ---- plain-Redux counter (actions/counterActions.js, counterReducer.js) --
PLAIN_INCREMENT == "INCREMENT"
PLAIN_DECREMENT == "DECREMENT"
PLAIN_RESET == "RESET"
PLAIN_INCREMENT_BY_AMOUNT == "INCREMENT_BY_AMOUNT"

plainInitialState == [value |-> 0]

\* the INCREMENT_BY_AMOUNT case is missing and falls through to default.
counterReducer_noAmount(s, action) ==
    CASE action.type = PLAIN_INCREMENT -> [s EXCEPT !.value = s.value + 1]
      [] action.type = PLAIN_DECREMENT -> [s EXCEPT !.value = s.value - 1]
      [] action.type = PLAIN_RESET -> [s EXCEPT !.value = 0]
      [] OTHER -> s

counterReducer(s, action) ==
    CASE action.type = PLAIN_INCREMENT -> [s EXCEPT !.value = s.value + 1]
      [] action.type = PLAIN_DECREMENT -> [s EXCEPT !.value = s.value - 1]
      [] action.type = PLAIN_RESET -> [s EXCEPT !.value = 0]
      [] action.type = PLAIN_INCREMENT_BY_AMOUNT -> [s EXCEPT !.value = s.value + action.payload]
      [] OTHER -> s

\* The intent the plain action creators build for an intent of the counter
\* slice; an intent of any other kind is passed on as it is.
plainAction(action) ==
    CASE action.type = INCREMENT -> [action EXCEPT !.type = PLAIN_INCREMENT]
      [] action.type = DECREMENT -> [action EXCEPT !.type = PLAIN_DECREMENT]
      [] action.type = RESET -> [action EXCEPT !.type = PLAIN_RESET]
      [] action.type = INCREMENT_BY_AMOUNT -> [action EXCEPT !.type = PLAIN_INCREMENT_BY_AMOUNT]
      [] OTHER -> action

\* ---- users slice (users.ts) --------------------------------------------
usersInitialState == [users |-> <<>>, status |-> "idle", error |-> Null]

\* pending is honoured from idle only.
onPending_idleOnly(s) == IF s.status = "idle" THEN [s EXCEPT !.status = "loading"] ELSE s

onPending(s) == [s EXCEPT !.status = "loading"]

\* a result arriving when the slice has already succeeded is dropped.
onFulfiled_firstWins(s, action) ==
    IF s.status = "succeeded" THEN s
    ELSE [s EXCEPT !.status = "succeeded", !.users = action.payload]

\* the list is stored and the status is left as it was.
onFulfiled_keepStatus(s, action) == [s EXCEPT !.users = action.payload]

onFulfiled(s, action) == [s EXCEPT !.status = "succeeded", !.users = action.payload]

\* a rejection is honoured only while the slice is loading.
onRejected_whileLoading(s, action) ==
    IF s.status = "loading"
    THEN [s EXCEPT !.status = "failed", !.error = action.payload]
    ELSE s

\* a failure also empties the list.
onRejected_clear(s, action) ==
    [s EXCEPT !.status = "failed", !.error = action.payload, !.users = <<>>]

\* a rejection records the message and forgets to set the status.
onRejected_keepStatus(s, action) == [s EXCEPT !.error = action.payload]

onRejected(s, action) == [s EXCEPT !.status = "failed", !.error = action.payload]

\* the reducer falls back to the initial state on a kind it has no case for.
userSlice_defaultInit(s, action) ==
    CASE action.type = PENDING -> onPending(s)
      [] action.type = FULFILLED -> onFulfiled(s, action)
      [] action.type = REJECTED -> onRejected(s, action)
      [] OTHER -> [users |-> <<>>, status |-> "idle", error |-> Null]

userSlice(s, action) ==
    CASE action.type = PENDING -> onPending(s)
      [] action.type = FULFILLED -> onFulfiled(s, action)
      [] action.type = REJECTED -> onRejected(s, action)
      [] OTHER -> s

\* ---- store (configureStore / combineReducers) --------------------------
rootReducer(tree, action) ==
    [counter |-> counterSlice(tree.counter, action),
     users |-> userSlice(tree.users, action)]

\* store.dispatch(action) of an intent object; the plain-Redux store is handed
\* the corresponding intent in the same step.
Dispatched(action) ==
    /\ state' = rootReducer(state, action)
    /\ plain' = counterReducer(plain, plainAction(action))
    /\ log' = Append(log, action)

\* ---- selectors and the UserList view (users.ts, UserList.tsx) -----------
selectAllUser(tree) == tree.users.users
selectUsersStatus(tree) == tree.users.status
selectUsersError(tree) == tree.users.error

\* What UserList renders from a tree: the content element (its class, its text
\* and the user names it lists, a user's name standing for the user) and the
\* Refresh button.
\* the Refresh button is never disabled.
UserList_neverDisabled(tree) ==
    LET users == selectAllUser(tree)
        status == selectUsersStatus(tree)
        error == selectUsersError(tree)
        content ==
            CASE status = "loading" ->
                    [class |-> "none", text |-> "Loading...", names |-> <<>>]
              [] status = "succeeded" ->
                    [class |-> "user-list", text |-> "", names |-> users]
              [] status = "failed" ->
                    [class |-> "error-message", text |-> error, names |-> <<>>]
              [] OTHER ->
                    [class |-> "none", text |-> "Waiting to load users...", names |-> <<>>]
    IN  [content |-> content,
         disabled |-> FALSE,
         label |-> IF status = "loading" THEN "Refreshing..." ELSE "Refresh Users"]

UserList(tree) ==
    LET users == selectAllUser(tree)
        status == selectUsersStatus(tree)
        error == selectUsersError(tree)
        content ==
            CASE status = "loading" ->
                    [class |-> "none", text |-> "Loading...", names |-> <<>>]
              [] status = "succeeded" ->
                    [class |-> "user-list", text |-> "", names |-> users]
              [] status = "failed" ->
                    [class |-> "error-message", text |-> error, names |-> <<>>]
              [] OTHER ->
                    [class |-> "none", text |-> "Waiting to load users...", names |-> <<>>]
    IN  [content |-> content,
         disabled |-> (status = "loading"),
         label |-> IF status = "loading" THEN "Refreshing..." ELSE "Refresh Users"]

\* ---- fetchUsers (createAsyncThunk) -------------------------------------
\* pc: "awaitFetch" = suspended at `await fetch(...)`, "awaitJson" = suspended
\* at `await response.json()`, "done" = the thunk has dispatched its resolution.
\* calls = network calls issued, parsed = response.json() was called, cause = why
\* it failed, outcome/result = what the payload creator returned, statusAtCall =
\* the users status when fetch() was called.
idleTask == [pc |-> "notStarted", calls |-> 0, parsed |-> FALSE, cause |-> "none",
             outcome |-> "none", result |-> Undefined, statusAtCall |-> "none"]

\* What the payload creator returns to createAsyncThunk.
Returned(data) == [kind |-> "value", value |-> data]
rejectWithValue(m) == [kind |-> "rejectWithValue", value |-> m]
Thrown(m) == [kind |-> "throw", value |-> m]

\* the catch clause rethrows instead of returning rejectWithValue.
catchError_rethrow(m) == Thrown(m)

\* The catch clause of the payload creator (users.ts:16-18).
catchError(m) == rejectWithValue(m)

\* createAsyncThunk turns the outcome of the payload creator into one intent.
resolution(outcome, id) ==
    CASE outcome.kind = "value" -> Action(FULFILLED, outcome.value, id)
      [] outcome.kind = "rejectWithValue" -> Action(REJECTED, outcome.value, id)
      [] OTHER -> Action(REJECTED, Undefined, id)

Init ==
    /\ state = [counter |-> counterInitialState, users |-> usersInitialState]
    /\ tasks = [i \in RequestIds |-> idleTask]
    /\ started = 0
    /\ log = <<>>
    /\ plain = plainInitialState

IsUi(a) == a.requestId = 0
UiOps == Len(SelectSeq(log, IsUi))

\* A click on Decrement, Increment or Reset (App.tsx:19-21).
DispatchCounter(limit) ==
    /\ UiOps < limit
    /\ \E action \in {increment, decrement, reset} : Dispatched(action)
    /\ UNCHANGED <<tasks, started>>

\* dispatch(incrementByAmount(a)) (App.tsx:22, with any integer amount).
DispatchByAmount(limit) ==
    /\ UiOps < limit
    /\ \E a \in Amounts : Dispatched(incrementByAmount(a))
    /\ UNCHANGED <<tasks, started>>

\* An intent no slice has a case for.
DispatchUnknown(limit) ==
    /\ UiOps < limit
    /\ Dispatched(unknownAction)
    /\ UNCHANGED <<tasks, started>>

\* dispatch(fetchUsers()): pending is dispatched synchronously, then the payload
\* creator runs up to its first await, having issued the network call.
FetchUsers(limit) ==
    /\ started < limit
    /\ LET id == started + 1 IN
        /\ started' = id
        /\ Dispatched(Action(PENDING, Undefined, id))
        /\ tasks' = [tasks EXCEPT ![id].pc = "awaitFetch", ![id].calls = @ + 1,
                                  ![id].statusAtCall = state'.users.status]

\* a failed attempt is reported and the network call is issued once more.
Resolve_retry(id, outcome, cause) ==
    /\ Dispatched(resolution(outcome, id))
    /\ tasks' = IF outcome.kind = "value" \/ tasks[id].calls >= 2
                THEN [tasks EXCEPT ![id].pc = "done", ![id].cause = cause,
                                   ![id].outcome = outcome.kind,
                                   ![id].result = outcome.value]
                ELSE [tasks EXCEPT ![id].pc = "awaitFetch", ![id].calls = @ + 1,
                                   ![id].parsed = FALSE]
    /\ UNCHANGED started

\* The payload creator has returned: createAsyncThunk dispatches the resolution.
Resolve(id, outcome, cause) ==
    /\ Dispatched(resolution(outcome, id))
    /\ tasks' = [tasks EXCEPT ![id].pc = "done", ![id].cause = cause,
                              ![id].outcome = outcome.kind,
                              ![id].result = outcome.value]
    /\ UNCHANGED started

\* fetch() rejects: the transport failed.
FetchThrows(id) ==
    /\ tasks[id].pc = "awaitFetch"
    /\ \E m \in TransportErrors : Resolve(id, catchError(m), "transport")

\* fetch() resolves with a response whose ok flag is false (users.ts:11-13).
ResponseNotOk(id) ==
    /\ tasks[id].pc = "awaitFetch"
    /\ Resolve(id, catchError(ServerError), "notOk")

\* fetch() resolves with an ok response: response.json() is called (users.ts:14).
ResponseOk(id) ==
    /\ tasks[id].pc = "awaitFetch"
    /\ tasks' = [tasks EXCEPT ![id].pc = "awaitJson", ![id].parsed = TRUE]
    /\ UNCHANGED <<state, started, log, plain>>

\* response.json() resolves with the parsed body (users.ts:15).
JsonResolves(id) ==
    /\ tasks[id].pc = "awaitJson"
    /\ \E data \in UserLists : Resolve(id, Returned(data), "none")

\* response.json() rejects: the body is not valid JSON.
JsonThrows(id) ==
    /\ tasks[id].pc = "awaitJson"
    /\ \E m \in ParseErrors : Resolve(id, catchError(m), "parse")

Network ==
    \/ \E id \in RequestIds : FetchThrows(id)
    \/ \E id \in RequestIds : ResponseNotOk(id)
    \/ \E id \in RequestIds : ResponseOk(id)
    \/ \E id \in RequestIds : JsonResolves(id)
    \/ \E id \in RequestIds : JsonThrows(id)

\* The counter buttons alone.
NextCounter ==
    \/ DispatchCounter(MaxOps)
    \/ DispatchByAmount(MaxOps)
    \/ DispatchUnknown(MaxOps)

SpecCounter == Init /\ [][NextCounter]_vars

\* Fetches alone, possibly overlapping.
NextUsers ==
    \/ FetchUsers(MaxFetch)
    \/ Network

SpecUsers == Init /\ [][NextUsers]_vars

\* The steps of one invocation after its start: what the network does to it.
TaskStep(id) ==
    \/ FetchThrows(id)
    \/ ResponseNotOk(id)
    \/ ResponseOk(id)
    \/ JsonResolves(id)
    \/ JsonThrows(id)

\* Fetches alone, every issued network call eventually returning or throwing.
SpecUsersFair == SpecUsers /\ \A id \in RequestIds : WF_vars(TaskStep(id))

\* A click on the Refresh button of UserList, which a disabled button ignores
\* (UserList.tsx:47-51).
ClickRefresh ==
    /\ ~UserList(state).disabled
    /\ FetchUsers(MaxUiFetch)

\* Fetches started through the Refresh button only.
NextUi ==
    \/ ClickRefresh
    \/ Network

SpecUi == Init /\ [][NextUi]_vars

\* The whole store: UI intents interleaved with a fetch.
Next ==
    \/ DispatchCounter(MaxMixedOps)
    \/ DispatchByAmount(MaxMixedOps)
    \/ DispatchUnknown(MaxMixedOps)
    \/ FetchUsers(MaxMixedFetch)
    \/ Network

Spec == Init /\ [][Next]_vars

\* ---- reading the log --------------------------------------------------
\* The intent a step has just processed, when it processed one.
Processed == Len(log') = Len(log) + 1
LastAction == log'[Len(log')]

IsResolution(a) == a.type \in {FULFILLED, REJECTED}
Pendings(id) == { k \in 1..Len(log) : log[k].type = PENDING /\ log[k].requestId = id }
Resolutions(id) == { k \in 1..Len(log) : IsResolution(log[k]) /\ log[k].requestId = id }
ResolutionIndexes == { k \in 1..Len(log) : IsResolution(log[k]) }
FulfilledIndexes == { k \in 1..Len(log) : log[k].type = FULFILLED }
Max(S) == CHOOSE k \in S : \A j \in S : j <= k

\* ---- C1 ----------------------------------------------------------------
CounterKinds == {INCREMENT, DECREMENT, RESET, INCREMENT_BY_AMOUNT}
Delta(a) ==
    CASE a.type = INCREMENT -> 1
      [] a.type = DECREMENT -> -1
      [] a.type = INCREMENT_BY_AMOUNT -> a.payload
      [] OTHER -> 0
RECURSIVE SumFrom(_, _)
SumFrom(seq, k) == IF k > Len(seq) THEN 0 ELSE Delta(seq[k]) + SumFrom(seq, k + 1)
ResetIndexes == { k \in 1..Len(log) : log[k].type = RESET }
AfterLastReset == IF ResetIndexes = {} THEN 1 ELSE Max(ResetIndexes) + 1

\* C1: after any sequence of counter intents dispatched from value = 0, the
\* counter value is the algebraic sum (+1 per increment, -1 per decrement, +a per
\* incrementByAmount(a)) of the intents dispatched since the last reset, or since
\* the start when there was no reset.
C1_CounterIsFold == state.counter.value = SumFrom(log, AfterLastReset)

\* A reset in the middle of the sequence, followed by a negative amount.
C1_Witness ==
    /\ Len(log) = 3
    /\ log[1].type = INCREMENT
    /\ log[2].type = RESET
    /\ log[3].type = INCREMENT_BY_AMOUNT
    /\ log[3].payload < 0
    /\ state.counter.value = log[3].payload

\* ---- C2 ----------------------------------------------------------------
\* C2: processing fetchUsers.fulfilled(list) in a state with status = 'loading'
\* yields status = 'succeeded', users = list and error cleared to its initial
\* empty value, also when the loading state was entered after a failed fetch.
C2_FulfilledClearsError ==
    [][(Processed /\ LastAction.type = FULFILLED /\ state.users.status = "loading")
        => /\ state'.users.status = "succeeded"
           /\ state'.users.users = LastAction.payload
           /\ state'.users.error = Null]_vars

\* ---- C3 ----------------------------------------------------------------
\* C3: processing fetchUsers.rejected(m) yields status = 'failed' and error = m
\* and leaves the users list exactly as it was before the intent.
C3_RejectedKeepsUsers ==
    [][(Processed /\ LastAction.type = REJECTED)
        => /\ state'.users.status = "failed"
           /\ state'.users.error = LastAction.payload
           /\ state'.users.users = state.users.users]_vars

\* A fetch failed after an earlier fetch had succeeded with a non-empty list.
C3_Witness ==
    /\ Len(log) > 0
    /\ log[Len(log)].type = REJECTED
    /\ state.users.status = "failed"
    /\ state.users.error \in Messages
    /\ Len(state.users.users) > 0

\* ---- C4 ----------------------------------------------------------------
\* C4: in every reachable state, status = 'loading' implies that error is
\* cleared (equal to its initial empty value).
C4_LoadingHasNoError == state.users.status = "loading" => state.users.error = Null

\* ---- C5 ----------------------------------------------------------------
\* C5: every invocation of fetchUsers dispatches exactly one pending, and once
\* it is done exactly one resolution (fulfilled or rejected, never both, never
\* twice) that comes after its pending; an invocation that has not resolved has
\* dispatched no resolution, and no invocation issues a second network call.
C5_OnePendingOneResolution ==
    \A id \in RequestIds :
        /\ Cardinality(Pendings(id)) = (IF id <= started THEN 1 ELSE 0)
        /\ Cardinality(Resolutions(id)) = (IF tasks[id].pc = "done" THEN 1 ELSE 0)
        /\ \A p \in Pendings(id) : \A r \in Resolutions(id) : p < r
        /\ Resolutions(id) # {} => Pendings(id) # {}
        /\ tasks[id].calls = (IF id <= started THEN 1 ELSE 0)

\* Two invocations are done, one fulfilled and one rejected.
C5_Witness ==
    /\ started >= 2
    /\ tasks[1].pc = "done" /\ tasks[2].pc = "done"
    /\ tasks[1].outcome = "rejectWithValue"
    /\ tasks[2].outcome = "value"

\* ---- C6 ----------------------------------------------------------------
\* C6: a fetch that ends by a transport error, a non-ok response or a parse
\* error dispatches rejected with a string message (never fulfilled, never an
\* exception escaping the payload creator) and the status becomes 'failed'; a
\* non-ok response gives 'Server Error!' and the body is not parsed.
C6_FailuresBecomeRejected ==
    [][\A id \in RequestIds :
        (tasks[id].pc # "done" /\ tasks'[id].pc = "done" /\ tasks'[id].cause # "none")
        => /\ Processed
           /\ LastAction.type = REJECTED
           /\ LastAction.requestId = id
           /\ LastAction.payload \in Messages
           /\ tasks'[id].outcome = "rejectWithValue"
           /\ state'.users.status = "failed"
           /\ state'.users.error = LastAction.payload
           /\ (tasks'[id].cause = "notOk"
                 => LastAction.payload = ServerError /\ ~tasks'[id].parsed)
           /\ (tasks'[id].cause = "parse" => tasks'[id].parsed)]_vars

\* One fetch ended by a non-ok response, another by a parse error.
C6_Witness ==
    /\ tasks[1].cause = "notOk" /\ ~tasks[1].parsed
    /\ tasks[2].cause = "parse" /\ tasks[2].parsed
    /\ state.users.status = "failed"
    /\ state.users.error \in ParseErrors

\* ---- C7 ----------------------------------------------------------------
\* C7: dispatching an intent whose kind is neither a counter kind nor a
\* fetchUsers lifecycle kind leaves the counter sub-state and the users
\* sub-state as they were.
C7_UnknownIsNoOp ==
    [][(Processed /\ LastAction.type \notin (CounterKinds \cup {PENDING, FULFILLED, REJECTED}))
        => /\ state'.counter = state.counter
           /\ state'.users = state.users]_vars

\* An unknown intent was dispatched last, on a tree whose two slices had both
\* left their initial value.
C7_Witness ==
    /\ Len(log) > 0
    /\ log[Len(log)].type = UNKNOWN
    /\ state.users.status = "failed"
    /\ state.counter.value # 0

\* ---- C8 ----------------------------------------------------------------
\* C8: fetchUsers can be dispatched from any status, also while a fetch is in
\* flight; the step that starts it processes pending, which sets status =
\* 'loading' and leaves the users list unchanged, and the network call is issued
\* with the status already 'loading'.
C8_FetchSetsLoading ==
    /\ [](started < MaxFetch => ENABLED FetchUsers(MaxFetch))
    /\ [][started' # started
            => /\ started' = started + 1
               /\ Processed
               /\ LastAction.type = PENDING
               /\ LastAction.requestId = started'
               /\ state'.users.status = "loading"
               /\ state'.users.users = state.users.users
               /\ tasks'[started'].pc = "awaitFetch"
               /\ tasks'[started'].statusAtCall = "loading"]_vars

\* A fetch was started after an earlier one had failed.
C8_Witness ==
    /\ Len(log) = 3
    /\ log[2].type = REJECTED
    /\ log[3].type = PENDING
    /\ state.users.status = "loading"
    /\ tasks[2].statusAtCall = "loading"

\* ---- C9 ----------------------------------------------------------------
\* fetch j was started before fetch i had resolved
Overlapped(i, j) == \E p \in Pendings(j) : \E r \in Resolutions(i) : p < r
AllDone == \A id \in 1..started : tasks[id].pc = "done"
StatusOf(a) == IF a.type = FULFILLED THEN "succeeded" ELSE "failed"

\* C9: once two overlapping fetches have both resolved, each has dispatched its
\* own pending and its own single resolution, and status (with error, after a
\* rejection) is the one written by the resolution processed last, whichever
\* fetch was started first.
C9_LastResolutionWins ==
    \A i, j \in RequestIds :
        (i < j /\ j <= started /\ AllDone /\ Overlapped(i, j))
        => /\ Cardinality(Pendings(i)) = 1 /\ Cardinality(Resolutions(i)) = 1
           /\ Cardinality(Pendings(j)) = 1 /\ Cardinality(Resolutions(j)) = 1
           /\ LET last == log[Max(ResolutionIndexes)] IN
                /\ state.users.status = StatusOf(last)
                /\ last.type = REJECTED => state.users.error = last.payload

\* The fetch started first resolves last, by a rejection, after the second one
\* has been fulfilled.
C9_Witness ==
    /\ Len(log) = 4
    /\ log[1].type = PENDING /\ log[1].requestId = 1
    /\ log[2].type = PENDING /\ log[2].requestId = 2
    /\ log[3].type = FULFILLED /\ log[3].requestId = 2
    /\ log[4].type = REJECTED /\ log[4].requestId = 1
    /\ state.users.status = "failed"
    /\ state.users.error = log[4].payload

\* ---- C10 ---------------------------------------------------------------
Succeeded == { id \in RequestIds : tasks[id].pc = "done" /\ tasks[id].outcome = "value" }

\* C10 as stated: whenever status = 'succeeded', users holds the result of the
\* successful fetch that was started last.
C10_LatestStartedWins ==
    state.users.status = "succeeded"
    => Succeeded # {} /\ state.users.users = tasks[Max(Succeeded)].result

\* C10 amended: whenever status = 'succeeded', users holds the payload of the
\* fulfilled intent that was processed last, whenever its fetch was started.
C10_LastProcessedWins ==
    state.users.status = "succeeded"
    => FulfilledIndexes # {} /\ state.users.users = log[Max(FulfilledIndexes)].payload

\* Two overlapping fetches succeed with different lists, the one started first
\* resolving last: its list is the one held.
C10_Witness ==
    /\ Len(log) = 4
    /\ log[3].type = FULFILLED /\ log[3].requestId = 2
    /\ log[4].type = FULFILLED /\ log[4].requestId = 1
    /\ log[3].payload # log[4].payload
    /\ state.users.status = "succeeded"
    /\ state.users.users = log[4].payload

\* ---- C11 ---------------------------------------------------------------
\* invocations that have dispatched pending and not yet their resolution
InFlight == { id \in RequestIds : Pendings(id) # {} /\ Resolutions(id) = {} }

\* C11: whenever status = 'loading', at least one fetchUsers invocation has
\* dispatched its pending intent and not yet dispatched its resolution.
C11_LoadingHasFetchInFlight == state.users.status = "loading" => InFlight # {}

\* Loading was entered again after a failure, and the second fetch is in flight.
C11_Witness ==
    /\ Len(log) = 3
    /\ log[2].type = REJECTED
    /\ log[3].type = PENDING
    /\ state.users.status = "loading"
    /\ InFlight = {2}
    /\ tasks[2].pc = "awaitJson"

\* ---- C12 ---------------------------------------------------------------
\* C12: in every reachable state with status = 'failed' and a non-empty users
\* list, the UserList view contains both the error message and the user names.
C12_FailedViewShowsListAndError ==
    (state.users.status = "failed" /\ Len(state.users.users) > 0)
    => /\ UserList(state).content.text = state.users.error
       /\ UserList(state).content.names = state.users.users

\* ---- C13 ---------------------------------------------------------------
IsLifecycle(a) == a.requestId # 0
UiIntents == SelectSeq(log, IsUi)
LifecycleIntents == SelectSeq(log, IsLifecycle)

\* The sub-state a slice reaches on the first n intents of seq alone.
RECURSIVE CounterAlone(_, _)
CounterAlone(seq, n) ==
    IF n = 0 THEN counterInitialState ELSE counterSlice(CounterAlone(seq, n - 1), seq[n])
RECURSIVE UsersAlone(_, _)
UsersAlone(seq, n) ==
    IF n = 0 THEN usersInitialState ELSE userSlice(UsersAlone(seq, n - 1), seq[n])

\* C13: in every reachable state, also while a fetch is outstanding, the counter
\* sub-state is the one the UI intents dispatched so far produce on their own and
\* the users sub-state is the one the fetch lifecycle intents produce on their
\* own, however the two streams were interleaved.
C13_SlicesDoNotInterfere ==
    /\ state.counter = CounterAlone(UiIntents, Len(UiIntents))
    /\ state.users = UsersAlone(LifecycleIntents, Len(LifecycleIntents))

\* A counter intent was applied while the fetch was outstanding, another after
\* the fetch succeeded.
C13_Witness ==
    /\ Len(log) = 4
    /\ log[1].type = PENDING
    /\ log[2].type = INCREMENT
    /\ log[3].type = FULFILLED
    /\ log[4].type = INCREMENT_BY_AMOUNT
    /\ state.counter.value = 1 + log[4].payload
    /\ state.users.status = "succeeded"
    /\ Len(state.users.users) > 0

\* ---- C14 ---------------------------------------------------------------
\* C14: when every issued network call eventually returns or throws, every
\* state with status = 'loading' is eventually followed by a state with status
\* 'succeeded' or 'failed', also when fetches overlap.
C14_LoadingEnds ==
    (state.users.status = "loading") ~> (state.users.status \in {"succeeded", "failed"})

\* Two overlapping fetches have both resolved and the slice has left loading.
C14_Witness ==
    /\ Len(log) = 4
    /\ log[1].type = PENDING
    /\ log[2].type = PENDING
    /\ IsResolution(log[3])
    /\ IsResolution(log[4])
    /\ state.users.status \in {"succeeded", "failed"}

\* ---- C15 ---------------------------------------------------------------
\* C15: fed the corresponding intents from value = 0, the plain-Redux
\* counterReducer and the counter slice hold the same value after every step,
\* and an intent of a kind neither recognises changes neither of them.
C15_ReducersAgree ==
    /\ [](plain.value = state.counter.value)
    /\ [][(Processed /\ LastAction.type \notin CounterKinds)
            => plain' = plain /\ state'.counter = state.counter]_vars

\* Both stores have processed an unknown intent, a decrement and an amount.
C15_Witness ==
    /\ Len(log) = 3
    /\ log[1].type = UNKNOWN
    /\ log[2].type = DECREMENT
    /\ log[3].type = INCREMENT_BY_AMOUNT
    /\ log[3].payload > 0
    /\ plain.value = log[3].payload - 1
    /\ state.counter.value = plain.value

\* ---- C16 ---------------------------------------------------------------
\* C16: when fetches are started through the Refresh button only, at most one
\* fetch is in flight in every reachable state, status = 'loading' holds exactly
\* while a fetch is in flight, and every fulfilled or rejected intent is
\* processed in a state with status = 'loading'.
C16_RefreshSerializesFetches ==
    /\ [](/\ Cardinality(InFlight) <= 1
          /\ state.users.status = "loading" <=> InFlight # {})
    /\ [][(Processed /\ IsResolution(LastAction)) => state.users.status = "loading"]_vars

\* A second click was accepted after the first fetch had failed, and its fetch
\* has resolved too.
C16_Witness ==
    /\ Len(log) = 4
    /\ log[2].type = REJECTED
    /\ log[3].type = PENDING
    /\ log[4].type = FULFILLED
    /\ InFlight = {}
    /\ ~UserList(state).disabled

====
